---- MODULE Spec2Model ----
(***************************************************************************)
(* Minimalist UI integration for Home Assistant: the configuration record, *)
(* the enabled/disabled system status, the setup / reload / remove hooks   *)
(* and the asset installer, as a state machine.                            *)
(*                                                                         *)
(* MuiBase.configuration and MuiBase.system are CLASS attributes           *)
(* (base.py:91, base.py:95): every MuiBase() instance shares the one       *)
(* MuiConfiguration and the one MuiSystem object, so both survive the      *)
(* `hass.data[DOMAIN] = mui = MuiBase()` of every setup.  The per-instance *)
(* attributes (integration, version, session, hass) do not.                *)
(***************************************************************************)
EXTENDS Integers, Sequences, FiniteSets, TLC

VARIABLES
    configuration,  \* the shared MuiConfiguration record (base.py:51-68, 91)
    system,         \* the shared MuiSystem record (base.py:38-42, 95)
    hassData,       \* hass.data[DOMAIN]: no instance, a fresh one, a started one
    pending,        \* setup sequences suspended at __init__.py:59
    panel,          \* the host's frontend panel "minimalist-ui" (or None)
    dashboards,     \* "minimalist-ui" in hass.data["lovelace"]["dashboards"]
    service,        \* the minimalist_ui.reload service is registered
    listeners,      \* update listeners added to the config entry
    removeTask,     \* a config_entries.async_remove task is scheduled
    entry,          \* what disable_mui(INVALID_TOKEN) does to the config entry
    fs,             \* destination files: path -> content
    bundle,         \* content of the files bundled with the integration
    last            \* the host's view of the last call: op, result, events fired

vars == <<configuration, system, hassData, pending, panel, dashboards, service,
          listeners, removeTask, entry, fs, bundle, last>>

-----------------------------------------------------------------------------
(* enums.py and const.py *)

None == "None"

YAML == "yaml"
CONFIG_ENTRY == "config_entry"

RATE_LIMIT == "rate_limit"
INVALID_TOKEN == "invalid_token"
LOAD_MUI == "load_mui"
muiDisabledReason == {RATE_LIMIT, INVALID_TOKEN, LOAD_MUI}

DEFAULT_LANGUAGE == "English (GB)"
DEFAULT_SIDEPANEL_ENABLED == TRUE
DEFAULT_SIDEPANEL_TITLE == "Minimalist UI"
DEFAULT_SIDEPANEL_ICON == "mdi:monitor-dashboard"
DEFAULT_THEME_PATH == "themes/"

\* The keys of LANGUAGES = {"English (GB)": "en"}.
LANGUAGES == {"English (GB)"}

\* A Python dict with no items.
EmptyDict == [k \in {} |-> None]

\* A local name of the code: `value` is computed once, as an assignment
\* computes it, and F is applied to the result.
With(value, F(_)) == CHOOSE y \in {F(v) : v \in {value}} : TRUE

-----------------------------------------------------------------------------
(* MuiSystem and MuiConfiguration *)

MuiSystem == [disabled_reason |-> None, running |-> FALSE]

disabled(sys) == sys.disabled_reason # None

\* The fields of the record that some operation reads, with their defaults.
\* (adaptive_ui_*, theme, plugin_path, include_other_cards and token are
\* stored and never read by the hooks or the installer.)
MuiConfiguration ==
    [config            |-> EmptyDict,
     config_entry      |-> None,
     config_type       |-> None,
     sidepanel_enabled |-> DEFAULT_SIDEPANEL_ENABLED,
     sidepanel_icon    |-> DEFAULT_SIDEPANEL_ICON,
     sidepanel_title   |-> DEFAULT_SIDEPANEL_TITLE,
     theme_path        |-> DEFAULT_THEME_PATH,
     language          |-> DEFAULT_LANGUAGE]

\* for key in data: self.__setattr__(key, data[key])
\* The keys of a dict are distinct, so the order of the loop is immaterial:
\* every field named by a key gets that key's value, the others stay.
SetAttrs(cfg, items) ==
    [key \in DOMAIN cfg |->
        IF key \in DOMAIN items THEN items[key] ELSE cfg[key]]

\* A mutation of update_from_dict: the record is rebuilt from the defaults,
\* as it would be were `configuration` an instance attribute.
update_from_dict_reset(cfg, data) ==
    With(data, LAMBDA d :
        IF ~d.isdict
        THEN [raised |-> TRUE, cfg |-> cfg]
        ELSE [raised |-> FALSE, cfg |-> SetAttrs(MuiConfiguration, d.items)])

\* MuiConfiguration.update_from_dict; data is [isdict, items].
update_from_dict(cfg, data) ==
    With(data, LAMBDA d :
        IF ~d.isdict
        THEN [raised |-> TRUE, cfg |-> cfg]
        ELSE [raised |-> FALSE, cfg |-> SetAttrs(cfg, d.items)])

\* Python's {**a, **b}: b's items win.
DictMerge(a, b) ==
    [k \in DOMAIN a \cup DOMAIN b |-> IF k \in DOMAIN b THEN b[k] ELSE a[k]]

-----------------------------------------------------------------------------
(* MuiBase.enable_mui / MuiBase.disable_mui *)

\* A mutation of enable_mui: the reason is left as it is.
enable_mui_keep(sys) == sys

\* MuiBase.enable_mui
enable_mui(sys) ==
    IF sys.disabled_reason # None
    THEN [sys EXCEPT !.disabled_reason = None]
    ELSE sys

\* A mutation of disable_mui: no early return when the reason is the current
\* one, so the INVALID_TOKEN side effects run again.
disable_mui_always(sys, ent, cfg, hassSet, reason) ==
    LET sys2 == [sys EXCEPT !.disabled_reason = reason]
    IN  IF reason # INVALID_TOKEN
        THEN [system |-> sys2, entry |-> ent, raised |-> FALSE]
        ELSE IF cfg.config_entry = None
        THEN [system |-> sys2, entry |-> ent, raised |-> TRUE]
        ELSE IF ~hassSet
        THEN [system |-> sys2,
              entry |-> [ent EXCEPT !.state = "setup_error"], raised |-> TRUE]
        ELSE [system |-> sys2,
              entry |-> [state |-> "setup_error", reauth |-> ent.reauth + 1],
              raised |-> FALSE]

\* MuiBase.disable_mui.  ent is the config entry as this method changes it;
\* hassSet says whether self.hass is set.  With reason INVALID_TOKEN the
\* method dereferences configuration.config_entry and self.hass AFTER it has
\* stored the reason: either being None raises AttributeError.
disable_mui(sys, ent, cfg, hassSet, reason) ==
    IF sys.disabled_reason = reason
    THEN [system |-> sys, entry |-> ent, raised |-> FALSE]
    ELSE LET sys2 == [sys EXCEPT !.disabled_reason = reason]
         IN  IF reason # INVALID_TOKEN
             THEN [system |-> sys2, entry |-> ent, raised |-> FALSE]
             ELSE IF cfg.config_entry = None
             THEN [system |-> sys2, entry |-> ent, raised |-> TRUE]
             ELSE IF ~hassSet
             THEN [system |-> sys2,
                   entry |-> [ent EXCEPT !.state = "setup_error"],
                   raised |-> TRUE]
             ELSE [system |-> sys2,
                   entry |-> [state |-> "setup_error",
                              reauth |-> ent.reauth + 1],
                   raised |-> FALSE]

\* A mutation of step_failed: the except handler only logs.
step_failed_logs_only(sys, ent, cfg) == sys

\* `except Exception: ... self.disable_mui(muiDisabledReason.LOAD_MUI)` of
\* the three setup steps; they run with self.hass set.
step_failed(sys, ent, cfg) == disable_mui(sys, ent, cfg, TRUE, LOAD_MUI).system

-----------------------------------------------------------------------------
(* The destination files and the files bundled with the integration *)

Absent == "absent"
UserContent == "user edit"

\* The content of every bundled file, one value per release of the bundle.
FirstRelease == "bundle v1"
NextRelease == "bundle v2"

UI == "minimalist_ui/dashboard/ui.yaml"
CUSTOM_ACTIONS == "minimalist_ui/custom_actions/custom_actions.yaml"
CA_THEME == "minimalist_ui/custom_actions/<themefiles>"
TPL_DEFAULT == "mui_templates/default.yaml"
TPL_LANGUAGE == "mui_templates/language.yaml"
TPL_CARDS == "mui_templates/<cards>"
TPL_CUSTOM_ACTIONS == "mui_templates/custom_actions/custom_actions.yaml"
TPL_CA_THEME == "mui_templates/custom_actions/<themefiles>"
THEMES == "themes/<themefiles>"

Paths == {UI, CUSTOM_ACTIONS, CA_THEME, TPL_DEFAULT, TPL_LANGUAGE, TPL_CARDS,
          TPL_CUSTOM_ACTIONS, TPL_CA_THEME, THEMES}

\* theme_path is a free string of the options form (config_flow.py:83-86):
\* the default, and the directory the installer reads custom actions from.
CUSTOM_ACTIONS_DIR == "minimalist_ui/custom_actions/"
ThemePaths == {DEFAULT_THEME_PATH, CUSTOM_ACTIONS_DIR}

\* Where hass.config.path(f"{theme_path}/") puts the bundled theme files.
ThemeDest(theme_path) ==
    IF theme_path = CUSTOM_ACTIONS_DIR THEN CA_THEME ELSE THEMES

NoFiles == [p \in Paths |-> Absent]

\* shutil.copy2(src, dst)
Copy2(files, dst, content) == [files EXCEPT ![dst] = content]

\* A mutation of CopyIfAbsent: the existence test is dropped.
CopyAlways(files, dst, content) == Copy2(files, dst, content)

\* if not os.path.exists(dst): shutil.copy2(src, dst)
CopyIfAbsent(files, dst, content) ==
    [files EXCEPT ![dst] = IF @ = Absent THEN content ELSE @]

\* shutil.copytree(<config>/minimalist_ui/custom_actions,
\*                 <templates_dir>/custom_actions, dirs_exist_ok=True):
\* every file the source directory holds is copied over; a file only the
\* destination holds stays.
CopyCustomActions(files) ==
    [files EXCEPT
        ![TPL_CUSTOM_ACTIONS] =
            IF files[CUSTOM_ACTIONS] # Absent THEN files[CUSTOM_ACTIONS] ELSE @,
        ![TPL_CA_THEME] =
            IF files[CA_THEME] # Absent THEN files[CA_THEME] ELSE @]

-----------------------------------------------------------------------------
(* MuiBase.configure_mui, the asset installer *)

(* The statements of configure_mui's try block that can raise, in order:     *)
(*   1 os.makedirs of dashboard/ and custom_actions/      (base.py:276-282)  *)
(*   2 LANGUAGES[self.configuration.language]             (base.py:285)      *)
(*   3 copy2 translations/default.yaml                    (base.py:288-291)  *)
(*   4 copy2 ui.yaml, if enabled and absent               (base.py:293-300)  *)
(*   5 copy2 custom_actions.yaml, if absent               (base.py:311-321)  *)
(*   6 copy2 translations/<language>.yaml                 (base.py:323-326)  *)
(*   7 copytree mui_templates                             (base.py:328-332)  *)
(*   8 copytree the user's custom_actions                 (base.py:334-338)  *)
(*   9 copytree themefiles to theme_path                  (base.py:340-344)  *)
(*  10 hass.bus.async_fire("minimalist_ui_reload")        (base.py:346)      *)
(*  11 hass.services.async_register(DOMAIN, "reload")     (base.py:354)      *)
(* failAt = 0: none raises; failAt = k: statement k raises (an OSError, a    *)
(* host error) before it has any effect.                                     *)
Statements == 1..11

\* The statement at which the run stops (0: none).  The KeyError of an
\* unknown language is the configuration's doing, not the environment's.
StopsAt(cfg, failAt) ==
    IF cfg.language \notin LANGUAGES /\ (failAt = 0 \/ failAt > 2)
    THEN 2
    ELSE failAt

\* Statement k is executed to its end.
Runs(k, stop) == stop = 0 \/ k < stop

\* The files after the copy statements of configure_mui (base.py:284-344).
configure_mui_files(cfg, files, bndl, stop) ==
    With(IF Runs(3, stop) THEN Copy2(files, TPL_DEFAULT, bndl) ELSE files,
         LAMBDA f3 :
    With(IF Runs(4, stop) /\ cfg.sidepanel_enabled
         THEN CopyIfAbsent(f3, UI, bndl) ELSE f3,
         LAMBDA f4 :
    With(IF Runs(5, stop) THEN CopyIfAbsent(f4, CUSTOM_ACTIONS, bndl) ELSE f4,
         LAMBDA f5 :
    With(IF Runs(6, stop) THEN Copy2(f5, TPL_LANGUAGE, bndl) ELSE f5,
         LAMBDA f6 :
    With(IF Runs(7, stop) THEN Copy2(f6, TPL_CARDS, bndl) ELSE f6,
         LAMBDA f7 :
    With(IF Runs(8, stop) THEN CopyCustomActions(f7) ELSE f7,
         LAMBDA f8 :
         IF Runs(9, stop)
         THEN Copy2(f8, ThemeDest(cfg.theme_path), bndl) ELSE f8))))))

\* A mutation of bus_fired: the event is fired before the copies, right
\* after the directories are made.
bus_fired_early(stop) == IF Runs(1, stop) THEN 1 ELSE 0

\* The number of minimalist_ui_reload events the run fires (base.py:346).
bus_fired(stop) == IF Runs(10, stop) THEN 1 ELSE 0

\* MuiBase.configure_mui
configure_mui(sys, ent, cfg, files, bndl, svc, failAt) ==
    LET stop == StopsAt(cfg, failAt)
    IN  [ok      |-> stop = 0,
         fs      |-> configure_mui_files(cfg, files, bndl, stop),
         fired   |-> bus_fired(stop),
         service |-> svc \/ Runs(11, stop),
         system  |-> IF stop = 0 THEN sys ELSE step_failed(sys, ent, cfg)]

\* MuiBase.reload_configuration, the handler of the minimalist_ui.reload
\* service.  custom_actions/ exists: the service is registered by an install
\* run that made it.  With copyRaises the copytree raises and the exception
\* leaves the handler.
reload_configuration(files, copyRaises) ==
    IF copyRaises
    THEN [raised |-> TRUE, fs |-> files, fired |-> 0]
    ELSE [raised |-> FALSE, fs |-> CopyCustomActions(files), fired |-> 1]

-----------------------------------------------------------------------------
(* MuiBase.configure_plugins and MuiBase.configure_dashboard *)

\* A mutation of configure_plugins: a missing dependency is treated like an
\* exception.
configure_plugins_strict(sys, ent, cfg, missing, hostRaises) ==
    IF hostRaises \/ missing
    THEN [ok |-> FALSE, system |-> step_failed(sys, ent, cfg), logged |-> TRUE]
    ELSE [ok |-> TRUE, system |-> sys, logged |-> FALSE]

\* MuiBase.configure_plugins.  missing: some os.path.exists probe finds a
\* dependency directory missing (or, with include_other_cards, present):
\* log.error only.  hostRaises: add_extra_js_url or
\* hass.http.register_static_path raises.
configure_plugins(sys, ent, cfg, missing, hostRaises) ==
    IF hostRaises
    THEN [ok |-> FALSE, system |-> step_failed(sys, ent, cfg), logged |-> TRUE]
    ELSE [ok |-> TRUE, system |-> sys, logged |-> missing]

DashboardRaises == {"no", "lookup", "call"}

\* frontend.async_remove_panel(hass, "minimalist-ui") leaves no panel.
NoPanel == [registered |-> FALSE, title |-> None, icon |-> None]

\* A mutation of configure_dashboard: the panel is registered with the
\* default title and icon instead of the configured ones.
configure_dashboard_defaults(sys, ent, cfg, pnl, dash, raises) ==
    IF raises # "no"
    THEN [ok |-> FALSE, system |-> step_failed(sys, ent, cfg),
          panel |-> pnl, dashboards |-> dash]
    ELSE IF cfg.sidepanel_enabled
    THEN [ok |-> TRUE, system |-> sys,
          panel |-> [registered |-> TRUE, title |-> DEFAULT_SIDEPANEL_TITLE,
                     icon |-> DEFAULT_SIDEPANEL_ICON],
          dashboards |-> TRUE]
    ELSE [ok |-> TRUE, system |-> sys,
          panel |-> IF dash THEN NoPanel ELSE pnl, dashboards |-> dash]

\* MuiBase.configure_dashboard.  raises = "lookup":
\* hass.data["lovelace"]["dashboards"] or LovelaceYAML raises;
\* raises = "call": _register_panel / async_remove_panel raises.
configure_dashboard(sys, ent, cfg, pnl, dash, raises) ==
    LET failed == [ok |-> FALSE, system |-> step_failed(sys, ent, cfg)]
        passed == [ok |-> TRUE, system |-> sys]
    IN  IF raises = "lookup"
        THEN failed @@ [panel |-> pnl, dashboards |-> dash]
        ELSE IF cfg.sidepanel_enabled
        THEN IF raises = "call"
             THEN failed @@ [panel |-> pnl, dashboards |-> TRUE]
             ELSE passed @@ [panel |-> [registered |-> TRUE,
                                        title |-> cfg.sidepanel_title,
                                        icon  |-> cfg.sidepanel_icon],
                             dashboards |-> TRUE]
        ELSE IF ~dash
        THEN passed @@ [panel |-> pnl, dashboards |-> dash]
        ELSE IF raises = "call"
        THEN failed @@ [panel |-> pnl, dashboards |-> dash]
        ELSE passed @@ [panel |-> NoPanel, dashboards |-> dash]

-----------------------------------------------------------------------------
(* async_initialize_integration, lines 59-89: what runs once                *)
(* `await async_get_integration(hass, DOMAIN)` has resumed.  None of the    *)
(* three steps awaits anything that suspends, so this part is one step.     *)

\* What the environment decides for one run of the three steps.
StepInputs(failPoints) ==
    [failAt : failPoints, missing : BOOLEAN, hostRaises : BOOLEAN,
     raises : DashboardRaises]

\* A mutation of async_startup: the three steps all run, whatever the
\* earlier ones returned, and the results are combined afterwards.
async_startup_runs_all(sys, ent, cfg, files, bndl, svc, pnl, dash, inp) ==
    With(configure_mui(sys, ent, cfg, files, bndl, svc, inp.failAt),
         LAMBDA r1 :
    With(configure_plugins(r1.system, ent, cfg, inp.missing, inp.hostRaises),
         LAMBDA r2 :
    With(configure_dashboard(r2.system, ent, cfg, pnl, dash, inp.raises),
         LAMBDA r3 :
    With(IF r1.ok /\ r2.ok /\ r3.ok THEN enable_mui(r3.system) ELSE r3.system,
         LAMBDA s4 :
         [fs |-> r1.fs, fired |-> r1.fired, service |-> r1.service,
          logged |-> r2.logged, panel |-> r3.panel,
          dashboards |-> r3.dashboards,
          result |-> r1.ok /\ r2.ok /\ r3.ok /\ ~disabled(s4), system |-> s4,
          ran |-> <<"configure_mui", "configure_plugins",
                    "configure_dashboard">>,
          failed |-> IF ~r1.ok THEN "configure_mui"
                     ELSE IF ~r2.ok THEN "configure_plugins"
                     ELSE IF ~r3.ok THEN "configure_dashboard"
                     ELSE None]))))

\* async_startup (__init__.py:69-81)
async_startup(sys, ent, cfg, files, bndl, svc, pnl, dash, inp) ==
    With(configure_mui(sys, ent, cfg, files, bndl, svc, inp.failAt),
         LAMBDA r1 :
    IF ~r1.ok
    THEN [fs |-> r1.fs, fired |-> r1.fired, service |-> r1.service,
          logged |-> FALSE, panel |-> pnl, dashboards |-> dash,
          result |-> FALSE, system |-> r1.system,
          ran |-> <<"configure_mui">>, failed |-> "configure_mui"]
    ELSE
    With(configure_plugins(r1.system, ent, cfg, inp.missing, inp.hostRaises),
         LAMBDA r2 :
    IF ~r2.ok
    THEN [fs |-> r1.fs, fired |-> r1.fired, service |-> r1.service,
          logged |-> r2.logged, panel |-> pnl, dashboards |-> dash,
          result |-> FALSE, system |-> r2.system,
          ran |-> <<"configure_mui", "configure_plugins">>,
          failed |-> "configure_plugins"]
    ELSE
    With(configure_dashboard(r2.system, ent, cfg, pnl, dash, inp.raises),
         LAMBDA r3 :
    IF ~r3.ok
    THEN [fs |-> r1.fs, fired |-> r1.fired, service |-> r1.service,
          logged |-> r2.logged, panel |-> r3.panel,
          dashboards |-> r3.dashboards,
          result |-> FALSE, system |-> r3.system,
          ran |-> <<"configure_mui", "configure_plugins",
                    "configure_dashboard">>,
          failed |-> "configure_dashboard"]
    ELSE
    With(enable_mui(r3.system), LAMBDA s4 :
         [fs |-> r1.fs, fired |-> r1.fired, service |-> r1.service,
          logged |-> r2.logged, panel |-> r3.panel,
          dashboards |-> r3.dashboards,
          result |-> ~disabled(s4), system |-> s4,
          ran |-> <<"configure_mui", "configure_plugins",
                    "configure_dashboard">>,
          failed |-> None]))))

\* __init__.py:63-89: the instance's attributes are set, system.running is
\* set, the steps run, and on success enable_mui() once more.
startup_tail(sys, ent, cfg, files, bndl, svc, pnl, dash, inp) ==
    With(async_startup([sys EXCEPT !.running = TRUE], ent, cfg, files,
                       bndl, svc, pnl, dash, inp),
         LAMBDA r :
         IF r.result THEN [r EXCEPT !.system = enable_mui(r.system)] ELSE r)

-----------------------------------------------------------------------------
(* Bounds and inputs *)

\* Setup sequences that may be suspended at __init__.py:59 at once.
MaxPending == 2
\* add_update_listener calls on the config entry.
MaxListeners == 3
\* hass.add_job(async_start_reauth) calls.
MaxReauth == 2

HOME_TITLE == "Home"
HOME_ICON == "mdi:home"
GERMAN == "Deutsch"

Dict(items) == [isdict |-> TRUE, items |-> items]

\* config[DOMAIN] of configuration.yaml: there is no CONFIG_SCHEMA, so any
\* mapping of options, or (a bare `minimalist_ui:` line) no mapping at all.
YamlOf(itemSet) ==
    {[domain |-> FALSE, isdict |-> FALSE, items |-> EmptyDict],
     [domain |-> TRUE, isdict |-> FALSE, items |-> EmptyDict]}
    \cup {[domain |-> TRUE, isdict |-> TRUE, items |-> i] : i \in itemSet}

\* config_entry.options as the options form returns them: every key of its
\* schema is filled in (config_flow.py:53-91).
Options(enabled, title, icon, theme_path) ==
    [sidepanel_enabled |-> enabled, sidepanel_title |-> title,
     sidepanel_icon |-> icon, theme_path |-> theme_path]

\* A config entry: its source, and {**data, **options}; the entry made by
\* the config flow has no options yet.
EntriesOf(optionSet) ==
    {[source |-> "import", options |-> EmptyDict],
     [source |-> "user", options |-> EmptyDict]}
    \cup {[source |-> "user", options |-> o] : o \in optionSet}

\* The inputs of Spec, the lifecycle.
YamlConfigs ==
    YamlOf({EmptyDict,
            [sidepanel_title |-> HOME_TITLE],
            [sidepanel_enabled |-> FALSE, language |-> GERMAN]})

ConfigEntries ==
    EntriesOf({Options(TRUE, DEFAULT_SIDEPANEL_TITLE, DEFAULT_SIDEPANEL_ICON,
                       DEFAULT_THEME_PATH),
               Options(FALSE, HOME_TITLE, HOME_ICON, DEFAULT_THEME_PATH)})

\* Where the environment makes configure_mui raise: nowhere, at a copy, at
\* the bus.
FailPoints == {0, 5, 10}

PendingCount == pending.others + (IF pending.current THEN 1 ELSE 0)

\* What the host sees of a call: the hook or method, its argument where the
\* claims need it, how it returned ("awaiting": suspended at line 59), and
\* for a run of the setup steps the steps run, the one that failed, the bus
\* events fired and whether configure_plugins logged an error.
Called(op, arg, result) ==
    [op |-> op, arg |-> arg, result |-> result, fired |-> 0, ran |-> <<>>,
     failed |-> None, logged |-> FALSE]

Returned(op, result) == Called(op, None, result)

Init ==
    /\ configuration = MuiConfiguration
    /\ system = MuiSystem
    /\ hassData = "none"
    /\ pending = [current |-> FALSE, others |-> 0]
    /\ panel = NoPanel
    /\ dashboards = FALSE
    /\ service = FALSE
    /\ listeners = 0
    /\ removeTask = FALSE
    /\ entry = [state |-> "loaded", reauth |-> 0]
    /\ fs = NoFiles
    /\ bundle = FirstRelease
    /\ last = Returned("none", "none")

-----------------------------------------------------------------------------
(* async_initialize_integration, lines 26-57, and the hooks that call it *)

\* A mutation of yaml_ignored: the provenance is not looked at.
yaml_never_ignored(cfg) == FALSE

\* __init__.py:32: file-based configuration is ignored once the record
\* comes from a config entry.
yaml_ignored(cfg) == cfg.config_type = CONFIG_ENTRY

\* __init__.py:34-40
yaml_payload(items) ==
    Dict(DictMerge(DictMerge([config_type |-> YAML], items),
                   [config |-> items]))

\* __init__.py:50-57
entry_payload(e) ==
    Dict(DictMerge([config_entry |-> "entry", config_type |-> CONFIG_ENTRY],
                   e.options))

\* hass.data[DOMAIN] = mui = MuiBase(); mui.enable_mui()  (__init__.py:26-27)
\* The sequences still suspended keep their own instance.  suspends: this
\* sequence goes on to the await of line 59.
NewInstance(suspends) ==
    /\ hassData' = "fresh"
    /\ system' = enable_mui(system)
    /\ pending' = [current |-> suspends,
                   others  |-> PendingCount]

\* async_setup(hass, config)
AsyncSetup(c) ==
    /\ PendingCount < MaxPending
    /\ IF ~c.domain \/ yaml_ignored(configuration)
       THEN /\ NewInstance(FALSE)
            /\ configuration' = configuration
            /\ last' = Returned("async_setup", "True")
       ELSE IF ~c.isdict
       THEN \* {**config[DOMAIN]} raises TypeError; nothing catches it
            /\ NewInstance(FALSE)
            /\ configuration' = configuration
            /\ last' = Returned("async_setup", "raised")
       ELSE /\ NewInstance(TRUE)
            /\ configuration' =
                   update_from_dict(configuration, yaml_payload(c.items)).cfg
            /\ last' = Called("async_setup", yaml_payload(c.items), "awaiting")
    /\ UNCHANGED <<panel, dashboards, service, listeners, removeTask, entry,
                   fs, bundle>>

\* async_setup_entry(hass, config_entry), called by the host (op =
\* "async_setup_entry") or by async_reload_entry (op = "async_reload_entry").
SetupEntry(op, e) ==
    /\ PendingCount < MaxPending
    /\ listeners < MaxListeners
    /\ listeners' = listeners + 1
    /\ IF e.source = "import"
       THEN /\ NewInstance(FALSE)
            /\ configuration' = configuration
            /\ removeTask' = TRUE
            /\ last' = Returned(op, "False")
       ELSE /\ NewInstance(TRUE)
            /\ configuration' =
                   update_from_dict(configuration, entry_payload(e)).cfg
            /\ removeTask' = removeTask
            /\ last' = Called(op, entry_payload(e), "awaiting")
    /\ UNCHANGED <<panel, dashboards, service, entry, fs, bundle>>

AsyncSetupEntry(e) == SetupEntry("async_setup_entry", e)

\* async_reload_entry(hass, config_entry)
AsyncReloadEntry(e) == SetupEntry("async_reload_entry", e)

\* A suspended sequence resumes and runs lines 59-89.  own: it is the
\* sequence whose instance hass.data[DOMAIN] still holds.
Startup(own, inp) ==
    /\ IF own THEN pending.current ELSE pending.others > 0
    /\ \E r \in {startup_tail(system, entry, configuration, fs, bundle,
                              service, panel, dashboards, inp)} :
           /\ system' = r.system
           /\ fs' = r.fs
           /\ service' = r.service
           /\ panel' = r.panel
           /\ dashboards' = r.dashboards
           /\ last' = [op |-> "startup", arg |-> None,
                       result |-> IF r.result THEN "True" ELSE "False",
                       fired |-> r.fired, ran |-> r.ran, failed |-> r.failed,
                       logged |-> r.logged]
    /\ hassData' = IF own THEN "started" ELSE hassData
    /\ pending' = IF own THEN [pending EXCEPT !.current = FALSE]
                  ELSE [pending EXCEPT !.others = @ - 1]
    /\ UNCHANGED <<configuration, listeners, removeTask, entry, bundle>>

\* async_remove_entry(hass, config_entry)
AsyncRemoveEntry ==
    /\ panel' = NoPanel
    /\ removeTask' = FALSE
    /\ last' = Returned("async_remove_entry", "None")
    /\ UNCHANGED <<configuration, system, hassData, pending, dashboards,
                   service, listeners, entry, fs, bundle>>

\* The minimalist_ui.reload service is called: handle_reload.
ReloadService(copyRaises) ==
    /\ service
    /\ \E r \in {reload_configuration(fs, copyRaises)} :
           /\ fs' = r.fs
           /\ last' = [Returned("reload_service",
                                IF r.raised THEN "raised" ELSE "None")
                       EXCEPT !.fired = r.fired]
    /\ UNCHANGED <<configuration, system, hassData, pending, panel,
                   dashboards, service, listeners, removeTask, entry, bundle>>

\* The user edits (or deletes) one of the two files the installer leaves alone.
UserEdit(path, content) ==
    /\ fs[path] # content
    /\ fs' = [fs EXCEPT ![path] = content]
    /\ last' = Returned("user_edit", "None")
    /\ UNCHANGED <<configuration, system, hassData, pending, panel,
                   dashboards, service, listeners, removeTask, entry, bundle>>

\* A new release of the integration replaces the bundled files.
Upgrade ==
    /\ bundle = FirstRelease
    /\ bundle' = NextRelease
    /\ last' = Returned("upgrade", "None")
    /\ UNCHANGED <<configuration, system, hassData, pending, panel,
                   dashboards, service, listeners, removeTask, entry, fs>>

Next ==
    \/ \E c \in YamlConfigs : AsyncSetup(c)
    \/ \E e \in ConfigEntries : AsyncSetupEntry(e)
    \/ \E e \in ConfigEntries : AsyncReloadEntry(e)
    \/ \E own \in BOOLEAN, inp \in StepInputs(FailPoints) : Startup(own, inp)
    \/ AsyncRemoveEntry
    \/ \E r \in BOOLEAN : ReloadService(r)

Spec == Init /\ [][Next]_vars

-----------------------------------------------------------------------------
(* The methods of MuiBase and MuiConfiguration called directly on the       *)
(* registered instance, between the host's hooks.  No hook calls            *)
(* disable_mui with RATE_LIMIT or INVALID_TOKEN, nor update_from_dict with  *)
(* anything but a dict literal.                                             *)

\* mui.enable_mui()
EnableMui ==
    /\ hassData # "none"
    /\ system' = enable_mui(system)
    /\ last' = Returned("enable_mui", "None")
    /\ UNCHANGED <<configuration, hassData, pending, panel, dashboards,
                   service, listeners, removeTask, entry, fs, bundle>>

\* mui.disable_mui(reason)
DisableMui(reason) ==
    /\ hassData # "none"
    /\ entry.reauth < MaxReauth
    /\ LET r == disable_mui(system, entry, configuration,
                            hassData = "started", reason)
       IN  /\ system' = r.system
           /\ entry' = r.entry
           /\ last' = Called("disable_mui", reason,
                             IF r.raised THEN "raised" ELSE "None")
    /\ UNCHANGED <<configuration, hassData, pending, panel, dashboards,
                   service, listeners, removeTask, fs, bundle>>

\* mui.configuration.update_from_dict(data)
UpdateFromDict(data) ==
    /\ hassData # "none"
    /\ LET r == update_from_dict(configuration, data)
       IN  /\ configuration' = r.cfg
           /\ last' = Called("update_from_dict", data,
                             IF r.raised THEN "raised" ELSE "None")
    /\ UNCHANGED <<system, hassData, pending, panel, dashboards, service,
                   listeners, removeTask, entry, fs, bundle>>

\* The arguments of update_from_dict: not a dict (None, a list), or a dict
\* of some of the options.
ApiData ==
    {[isdict |-> FALSE, items |-> EmptyDict]}
    \cup {Dict(i) : i \in {EmptyDict,
                           [sidepanel_title |-> HOME_TITLE],
                           [sidepanel_title |-> DEFAULT_SIDEPANEL_TITLE,
                            sidepanel_enabled |-> FALSE],
                           [sidepanel_enabled |-> TRUE, language |-> GERMAN]}}

\* The hooks that make the instance the methods are called on: one setup
\* sequence at a time, whose steps succeed.
ApiYaml == YamlOf({[sidepanel_title |-> HOME_TITLE]})

ApiEntries ==
    {[source |-> "user", options |-> EmptyDict],
     [source |-> "user",
      options |-> Options(FALSE, HOME_TITLE, HOME_ICON, DEFAULT_THEME_PATH)]}

ApiInputs ==
    [failAt : {0}, missing : {FALSE}, hostRaises : {FALSE}, raises : {"no"}]

NextApi ==
    \/ \E c \in ApiYaml : PendingCount = 0 /\ AsyncSetup(c)
    \/ \E e \in ApiEntries : PendingCount = 0 /\ AsyncSetupEntry(e)
    \/ \E inp \in ApiInputs : Startup(TRUE, inp)
    \/ EnableMui
    \/ \E reason \in muiDisabledReason : DisableMui(reason)
    \/ \E data \in ApiData : UpdateFromDict(data)

SpecApi == Init /\ [][NextApi]_vars

-----------------------------------------------------------------------------
(* The asset installer under user edits and upgrades of the bundle: one     *)
(* setup sequence at a time, every statement of configure_mui may raise.    *)

\* configuration.yaml sets the two options the installer reads.
InstallYaml ==
    {[domain |-> TRUE, isdict |-> TRUE,
      items |-> [sidepanel_enabled |-> e, theme_path |-> t]] :
        e \in BOOLEAN, t \in ThemePaths}

InstallInputs ==
    [failAt : {0} \cup Statements, missing : {FALSE}, hostRaises : {FALSE},
     raises : {"no"}]

NextInstall ==
    \/ \E c \in InstallYaml : PendingCount = 0 /\ AsyncSetup(c)
    \/ \E inp \in InstallInputs : Startup(TRUE, inp)
    \/ \E r \in BOOLEAN : ReloadService(r)
    \/ \E p \in {UI, CUSTOM_ACTIONS}, c \in {UserContent, Absent} : UserEdit(p, c)
    \/ Upgrade

SpecInstall == Init /\ [][NextInstall]_vars

-----------------------------------------------------------------------------
(* Claims *)

SetupHooks == {"async_setup", "async_setup_entry", "async_reload_entry"}

\* C1: once config_type is CONFIG_ENTRY, a file-based setup (async_setup,
\* with or without the domain key in its config) leaves every field of the
\* configuration record as it was, config_type included.
C1_NonOverride ==
    [][(configuration.config_type = CONFIG_ENTRY /\ last'.op = "async_setup")
        => configuration' = configuration]_vars

\* A file-based setup has returned with the record still entry-based.
C1_Witness ==
    /\ last.op = "async_setup"
    /\ last.result = "True"
    /\ configuration.config_type = CONFIG_ENTRY
    /\ configuration.config_entry # None

\* C2: a setup sequence whose three steps all succeed ends Enabled and
\* returns True; one in which a step fails ends Disabled(LOAD_MUI) and
\* returns False; whatever status the system had before.
C2_SetupOutcome ==
    last.op = "startup" =>
        IF last.failed = None
        THEN system.disabled_reason = None /\ last.result = "True"
        ELSE system.disabled_reason = LOAD_MUI /\ last.result = "False"

\* A reload (a second entry setup) has run its steps and ended Enabled.
C2_Witness ==
    /\ last.op = "startup"
    /\ last.failed = None
    /\ last.result = "True"
    /\ ~disabled(system)
    /\ listeners >= 2

\* No integration instance, dashboard entry or running status is left.
TornDown ==
    /\ ~panel.registered
    /\ hassData = "none"
    /\ ~dashboards
    /\ ~system.running

\* C3: removal after a successful setup unregisters the panel and tears the
\* lifecycle state down.
C3_RemovalTearsDown ==
    [][(last.op = "startup" /\ last.result = "True"
        /\ last'.op = "async_remove_entry") => TornDown']_vars

\* C4 as claimed: no setup hook ever raises into the host.
C4_NothingPropagates ==
    last.op \in SetupHooks \cup {"startup"} => last.result # "raised"

\* C4, amended: an exception inside one of the three setup steps is caught
\* and becomes Disabled(LOAD_MUI) and a False return; the only exception that
\* leaves a setup hook is the TypeError of a config[DOMAIN] that is no
\* mapping, and it leaves the system enabled.
C4_StepExceptionsCaught ==
    /\ (last.op = "startup" /\ last.failed # None) =>
           (disabled(system) /\ last.result = "False")
    /\ (last.op \in SetupHooks \cup {"startup"} /\ last.result = "raised") =>
           (last.op = "async_setup" /\ ~disabled(system)
            /\ hassData = "fresh")

\* The installer raised, and the sequence returned False, disabled.
C4_Witness ==
    /\ last.op = "startup"
    /\ last.failed = "configure_mui"
    /\ last.result = "False"
    /\ system.disabled_reason = LOAD_MUI

\* C5 as claimed: configure_plugins never fails the setup sequence, whatever
\* its probes and host registrations do.
C5_NeverFails == last.failed # "configure_plugins"

\* C5, amended: whatever the filesystem probes find, configure_plugins only
\* logs, leaves the status as it is and reports success; when a host
\* registration raises it disables with LOAD_MUI and the sequence returns
\* False.
C5_ProbesNonFatal ==
    /\ \A missing \in BOOLEAN :
           LET r == configure_plugins(system, entry, configuration,
                                      missing, FALSE)
           IN  r.ok /\ r.system = system /\ r.logged = missing
    /\ (last.logged /\ last.failed # "configure_plugins") =>
           "configure_dashboard" \in {last.ran[i] : i \in DOMAIN last.ran}
    /\ last.failed = "configure_plugins" =>
           (system.disabled_reason = LOAD_MUI /\ last.result = "False")

\* A probe found a dependency missing, it was logged, and the sequence went
\* on to end Enabled.
C5_Witness ==
    /\ last.op = "startup"
    /\ last.logged
    /\ last.failed = None
    /\ last.result = "True"
    /\ ~disabled(system)

\* C6: a ui.yaml (a custom_actions.yaml) that exists when the installer runs
\* has the same content after the run, whatever the bundle holds, whatever
\* the configuration, wherever the run stops.
C6_Preservation ==
    [][last'.op = "startup" =>
        /\ fs[UI] # Absent => fs'[UI] = fs[UI]
        /\ fs[CUSTOM_ACTIONS] # Absent => fs'[CUSTOM_ACTIONS] = fs[CUSTOM_ACTIONS]
      ]_vars

\* A complete install from the new release, with the dashboard enabled, has
\* left the old release's ui.yaml and the user's custom_actions.yaml alone.
C6_Witness ==
    /\ last.op = "startup"
    /\ last.failed = None
    /\ configuration.sidepanel_enabled
    /\ bundle = NextRelease
    /\ fs[TPL_CARDS] = NextRelease
    /\ fs[UI] = FirstRelease
    /\ fs[CUSTOM_ACTIONS] = UserContent

\* C7: the installer run twice in a row, with the same configuration, the
\* same bundle, stopping at the same statement and no user edit in between,
\* leaves after the second run the files it left after the first.
C7_Idempotent ==
    \A failAt \in {0} \cup Statements :
        LET stop  == StopsAt(configuration, failAt)
            once  == configure_mui_files(configuration, fs, bundle, stop)
            twice == configure_mui_files(configuration, once, bundle, stop)
        IN  twice = once

\* C8: disable_mui(reason) with the current reason changes nothing (no
\* reauth job, no change of the entry); enable_mui leaves the reason
\* cleared; after a disable_mui the system is disabled, after an enable_mui
\* it is not.
C8_StatusTransitions ==
    [][/\ (last'.op = "disable_mui" /\ last'.arg = system.disabled_reason) =>
              /\ system' = system
              /\ entry' = entry
              /\ configuration' = configuration
              /\ last'.result = "None"
       /\ last'.op = "enable_mui" => ~disabled(system')
       /\ last'.op = "disable_mui" =>
              (disabled(system') /\ system'.disabled_reason = last'.arg)
      ]_vars

\* disable_mui(INVALID_TOKEN) returned normally with no config entry: it can
\* only have been the no-op, the reason being INVALID_TOKEN already.
C8_Witness ==
    /\ last.op = "disable_mui"
    /\ last.arg = INVALID_TOKEN
    /\ last.result = "None"
    /\ configuration.config_entry = None
    /\ system.disabled_reason = INVALID_TOKEN
    /\ entry.reauth = 0

\* C9: update_from_dict(data), called directly or by a setup hook, sets the
\* keys of a mapping to its values and leaves every other field as it was;
\* with no mapping it raises and leaves the record as it was.
C9_Merge ==
    [][(\/ last'.op = "update_from_dict"
        \/ last'.op \in SetupHooks /\ last'.result = "awaiting") =>
        LET data == last'.arg
        IN  IF data.isdict
            THEN /\ last'.result # "raised"
                 /\ DOMAIN configuration' = DOMAIN configuration
                 /\ \A k \in DOMAIN configuration :
                        configuration'[k] =
                            IF k \in DOMAIN data.items
                            THEN data.items[k] ELSE configuration[k]
            ELSE /\ last'.result = "raised"
                 /\ configuration' = configuration
      ]_vars

\* A payload without sidepanel_title was merged into a record whose title
\* an earlier payload had set: the title is still that one.
C9_Witness ==
    /\ last.op \in SetupHooks \cup {"update_from_dict"}
    /\ last.result \in {"awaiting", "None"}
    /\ "sidepanel_title" \notin DOMAIN last.arg.items
    /\ "sidepanel_enabled" \in DOMAIN last.arg.items
    /\ configuration.sidepanel_title = HOME_TITLE
    /\ configuration.sidepanel_enabled = last.arg.items.sidepanel_enabled

\* C10 as claimed: every install run and every call of the reload service
\* fires exactly one minimalist_ui_reload event.
C10_OneEventEach ==
    last.op \in {"startup", "reload_service"} => last.fired = 1

\* C10, amended: an install run fires the event once, after its copies, when
\* every statement up to the fire completes, and not at all when one of them
\* raises; the reload service fires it once after its copytree, and not at
\* all when the copytree raises.
C10_EventAfterCopies ==
    [][/\ last'.op = "startup" =>
              /\ last'.fired \in {0, 1}
              /\ last'.fired = 1 =>
                     fs' = configure_mui_files(configuration, fs, bundle, 0)
              /\ last'.fired = 0 => last'.failed = "configure_mui"
              /\ last'.failed = None => last'.fired = 1
       /\ last'.op = "reload_service" =>
              /\ last'.fired = (IF last'.result = "raised" THEN 0 ELSE 1)
              /\ last'.fired = 1 => fs' = CopyCustomActions(fs)
      ]_vars

\* An install run copied the new release's files and then fired its event.
C10_Witness ==
    /\ last.op = "startup"
    /\ last.failed = None
    /\ last.fired = 1
    /\ bundle = NextRelease
    /\ fs[TPL_DEFAULT] = NextRelease
    /\ fs[THEMES] = NextRelease

\* C11: a successful setup with sidepanel_enabled true leaves the panel
\* 'minimalist-ui' registered with the title and icon the configuration
\* holds when the steps run, and a destination ui.yaml that was absent
\* before equals the bundled default afterwards.
C11_PanelAndDashboard ==
    [][(/\ last'.op = "startup"
        /\ last'.result = "True"
        /\ configuration.sidepanel_enabled)
        => /\ panel' = [registered |-> TRUE,
                        title |-> configuration.sidepanel_title,
                        icon  |-> configuration.sidepanel_icon]
           /\ dashboards'
           /\ fs[UI] = Absent => fs'[UI] = bundle]_vars

\* A setup with a configured title has succeeded: the panel carries that
\* title and ui.yaml is the bundled default.
C11_Witness ==
    /\ last.op = "startup"
    /\ last.result = "True"
    /\ configuration.sidepanel_enabled
    /\ configuration.sidepanel_title = HOME_TITLE
    /\ panel.registered
    /\ panel.title = HOME_TITLE
    /\ fs[UI] = bundle

\* C12: no two setup sequences are in progress at once: while a sequence is
\* suspended at its await, no hook call mutates the shared configuration or
\* status record or replaces the instance registered in hass.data.
C12_MutuallyExclusive ==
    [][(PendingCount > 0 /\ last'.op \in SetupHooks)
        => /\ configuration' = configuration
           /\ system' = system
           /\ pending'.others = pending.others]_vars

\* The three setup steps in the order async_startup calls them.
StepOrder == <<"configure_mui", "configure_plugins", "configure_dashboard">>

\* C13: the steps run in the order configure_mui, configure_plugins,
\* configure_dashboard, and a run stops at the first step that fails: the
\* failed step is the last one run, and after a failed install or
\* dependency check the panel and the dashboards entry are as before (after
\* a failed install configure_plugins has not logged either).
C13_OrderedShortCircuit ==
    [][last'.op = "startup"
        => /\ \E n \in 1..3 : last'.ran = SubSeq(StepOrder, 1, n)
           /\ last'.failed = None => last'.ran = StepOrder
           /\ last'.failed # None
                  => last'.failed = last'.ran[Len(last'.ran)]
           /\ last'.failed \in {"configure_mui", "configure_plugins"}
                  => panel' = panel /\ dashboards' = dashboards
           /\ last'.failed = "configure_mui" => ~last'.logged]_vars

\* The dependency check failed in a first setup with the sidepanel enabled:
\* configure_dashboard did not run and no panel is registered.
C13_Witness ==
    /\ last.op = "startup"
    /\ last.failed = "configure_plugins"
    /\ last.ran = <<"configure_mui", "configure_plugins">>
    /\ configuration.sidepanel_enabled
    /\ ~panel.registered
    /\ ~dashboards

\* C14: whatever entry setups and reloads have run, the config entry holds
\* exactly one options-update listener (none before the first entry setup),
\* so that an options update calls async_reload_entry once.
C14_OneListener ==
    /\ listeners <= 1
    /\ last.op \in {"async_setup_entry", "async_reload_entry"} => listeners = 1

====
